---- MODULE Spec2Model ----
(***************************************************************************)
(* A model of lineage's block chain for two-player chess games             *)
(* (src/src/block.rs, src/src/crypto.rs): ChallengeBlock, AcceptBlock,     *)
(* MoveBlock and GameChain with accept, make_move_block, verify, as_bytes  *)
(* and from_bytes.                                                         *)
(*                                                                         *)
(* Bytes.  A byte sequence is a sequence of cells.  A cell is a record     *)
(* [d, v]: v is the byte's numeric value (0..255) and d is <<>> for a      *)
(* plain byte.  Ed25519 is modelled symbolically: the 64 bytes of the      *)
(* signature of message m under the key pair with public key pk are one    *)
(* cell carrying d = <<pk, m>> followed by 63 zero cells, so a signature   *)
(* is a deterministic, injective function of (key, message) and keeps its  *)
(* real length.  Adding to a byte of a signature changes that cell's v.    *)
(*                                                                         *)
(* Chess.  The rules oracle (the external chess crate) is modelled on the  *)
(* fragment of pawn pushes from the initial position; in that fragment no  *)
(* capture or check can arise, so the legality of the moves offered to     *)
(* the model is the legality the crate computes.                           *)
(***************************************************************************)
EXTENDS Integers, Sequences, FiniteSets, TLC

\* ---------------------------------------------------------------- bounds
NumKeys == 2
MaxMoves == 2

\* ------------------------------------------------------ program constants
ChallengeLen == 82
SigLen == 64
KeyLen == 32

\* ------------------------------------------------------------------ bytes
B(n) == [d |-> <<>>, v |-> n]

Zeros(n) == [i \in 1..n |-> B(0)]

\* n >> (8 * j), by repeated division (no intermediate power is formed).
RECURSIVE ShiftRightBytes(_, _)
ShiftRightBytes(n, j) == IF j = 0 THEN n ELSE ShiftRightBytes(n \div 256, j - 1)

\* u32::to_be_bytes / u64::to_be_bytes: w bytes, most significant first.
ToBeBytes(n, w) == [i \in 1..w |-> B(ShiftRightBytes(n, w - i) % 256)]

\* u32::from_be_bytes / u64::from_be_bytes.
RECURSIVE FromBeBytes(_)
FromBeBytes(bs) ==
    IF bs = <<>> THEN 0
    ELSE FromBeBytes(SubSeq(bs, 1, Len(bs) - 1)) * 256 + bs[Len(bs)].v

\* bytes[from..] of a Rust slice, from counted from 0.
SliceFrom(bytes, from) == SubSeq(bytes, from + 1, Len(bytes))

\* bytes[from..to] of a Rust slice, from and to counted from 0.
Slice(bytes, from, to) == SubSeq(bytes, from + 1, to)

\* ----------------------------------------------------------------- crypto
Keys == 1..NumKeys

\* key_pair.public_key().as_ref(): the 32 bytes of key pair k's public key.
PublicKey(k) == [i \in 1..KeyLen |-> B(k)]

\* crypto::sign on the public key of the signing pair.  The bytes of a
\* signature are known only by the key and message they were made for: the
\* v of a signature cell counts, modulo 256, how far the byte stands from
\* the one the signer produced.
SignUnder(pk, msg) ==
    <<[d |-> <<pk, msg>>, v |-> 0]>> \o Zeros(SigLen - 1)

CryptoSign(k, msg) == SignUnder(PublicKey(k), msg)

CryptoVerify(public_key, msg, sig) == sig = SignUnder(public_key, msg)

\* --------------------------------------------------------- ChallengeBlock
\* copy_from_slice aborts the process unless a key is exactly 32 bytes
\* long: "panic".
ChallengeNew(white_public_key, black_public_key) ==
    IF Len(white_public_key) # KeyLen \/ Len(black_public_key) # KeyLen
    THEN "panic"
    ELSE [version |-> 0,
          network_id |-> 0,
          id |-> 0,
          white_public_key |-> white_public_key,
          black_public_key |-> black_public_key,
          paired_game_id |-> 0,
          timestamp |-> 0]

ChallengeAsBytes(c) ==
    <<B(c.version), B(c.network_id)>>
        \o ToBeBytes(c.id, 4)
        \o c.white_public_key
        \o c.black_public_key
        \o ToBeBytes(c.paired_game_id, 4)
        \o ToBeBytes(c.timestamp, 8)

\* Indexing past the end of the slice aborts the process: "panic".
ChallengeFromBytes(bytes) ==
    IF Len(bytes) < ChallengeLen THEN "panic"
    ELSE [version |-> bytes[1].v,
          network_id |-> bytes[2].v,
          id |-> FromBeBytes(Slice(bytes, 2, 6)),
          white_public_key |-> Slice(bytes, 6, 38),
          black_public_key |-> Slice(bytes, 38, 70),
          paired_game_id |-> FromBeBytes(Slice(bytes, 70, 74)),
          timestamp |-> FromBeBytes(Slice(bytes, 74, 82))]

\* Whether ChallengeBlock::from_bytes panics: it indexes bytes[0], bytes[1]
\* and slices bytes[2..6], [6..38], [38..70], [70..74], [74..82] unchecked.
ChallengeFromBytesPanics(bytes) ==
    \E upper \in {1, 2, 6, 38, 70, 74, 82} : Len(bytes) < upper

\* ------------------------------------------------------------ AcceptBlock
\* Option<T>: None is the empty sequence, Some(x) the one-element sequence.
None == <<>>
Some(x) == <<x>>
IsNone(o) == o = <<>>
IsSome(o) == o # <<>>
Unwrap(o) == o[1]

ErrAcceptShort == "Not enough bytes to create accept block."

AcceptNew(challenge, k) ==
    [signature |-> CryptoSign(k, ChallengeAsBytes(challenge))]

\* Result<AcceptBlock, &str>
AcceptFromBytes(bytes) ==
    IF Len(bytes) < SigLen
    THEN [ok |-> FALSE, err |-> ErrAcceptShort]
    ELSE [ok |-> TRUE, val |-> [signature |-> Slice(bytes, 0, 64)]]

AcceptAsBytes(a) == a.signature

\* -------------------------------------------------------------- MoveBlock
MoveAsBytes(m) == <<B(m.start_square), B(m.end_square)>> \o m.signature

\* -------------------------------------------------------------- GameChain
GameChainNew(challenge) ==
    [challenge |-> challenge, accepts |-> <<None, None>>, moves |-> <<>>]

RECURSIVE MovesAsBytes(_)
MovesAsBytes(ms) ==
    IF ms = <<>> THEN <<>>
    ELSE MovesAsBytes(SubSeq(ms, 1, Len(ms) - 1)) \o MoveAsBytes(ms[Len(ms)])

\* as_bytes leaving the second accept block out of the encoding.
AsBytesSkipSecondAccept(c) ==
    IF IsNone(c.accepts[1]) THEN ChallengeAsBytes(c.challenge)
    ELSE IF IsNone(c.accepts[2])
    THEN ChallengeAsBytes(c.challenge) \o AcceptAsBytes(Unwrap(c.accepts[1]))
    ELSE ChallengeAsBytes(c.challenge)
            \o AcceptAsBytes(Unwrap(c.accepts[1]))
            \o MovesAsBytes(c.moves)

AsBytes(c) ==
    IF IsNone(c.accepts[1]) THEN ChallengeAsBytes(c.challenge)
    ELSE IF IsNone(c.accepts[2])
    THEN ChallengeAsBytes(c.challenge) \o AcceptAsBytes(Unwrap(c.accepts[1]))
    ELSE ChallengeAsBytes(c.challenge)
            \o AcceptAsBytes(Unwrap(c.accepts[1]))
            \o AcceptAsBytes(Unwrap(c.accepts[2]))
            \o MovesAsBytes(c.moves)

ErrChallengeShort == "Not enough bytes to create challenge block."

\* Result<GameChain, &str>
FromBytes(bytes) ==
    IF Len(bytes) < ChallengeLen
    THEN [ok |-> FALSE, err |-> ErrChallengeShort]
    ELSE LET chain0 == GameChainNew(ChallengeFromBytes(bytes))
             a0 == AcceptFromBytes(SliceFrom(bytes, 82))
         IN  IF ~a0.ok THEN [ok |-> TRUE, val |-> chain0]
             ELSE LET chain1 == [chain0 EXCEPT !.accepts[1] = Some(a0.val)]
                      a1 == AcceptFromBytes(SliceFrom(bytes, 82 + 64))
                  IN  IF ~a1.ok THEN [ok |-> TRUE, val |-> chain1]
                      ELSE [ok |-> TRUE,
                            val |-> [chain1 EXCEPT !.accepts[2] = Some(a1.val)]]

\* ------------------------------------------------- chess (rules oracle)
\* Square::to_int: a1 = 0, b1 = 1, ..., h8 = 63; file and rank count from 1.
SquareAt(file, rank) == (rank - 1) * 8 + (file - 1)

Squares == 0..63

RankOf(sq) == (sq \div 8) + 1

FileOf(sq) == (sq % 8) + 1

Inside(file, rank) == file \in 1..8 /\ rank \in 1..8

BackRank == <<"R", "N", "B", "Q", "K", "B", "N", "R">>

\* No en-passant square.
NoSquare == -1

\* Game::new(): the initial position, White to move, all four castling
\* rights, no en-passant square.  White pieces are upper case, black
\* pieces lower case, "." an empty square.
InitialPosition ==
    [board |-> [sq \in Squares |->
                    IF RankOf(sq) = 1 THEN BackRank[(sq % 8) + 1]
                    ELSE IF RankOf(sq) = 2 THEN "P"
                    ELSE IF RankOf(sq) = 7 THEN "p"
                    ELSE IF RankOf(sq) = 8
                    THEN <<"r", "n", "b", "q", "k", "b", "n", "r">>[(sq % 8) + 1]
                    ELSE "."],
     side |-> "White",
     castle |-> {"K", "Q", "k", "q"},
     ep |-> NoSquare]

\* ChessMove::new(source, dest, None)
ChessMove(source, dest) == [source |-> source, dest |-> dest, promotion |-> "None"]

\* ChessMove::new(source, dest, Some(piece))
ChessMovePromote(source, dest, piece) ==
    [source |-> source, dest |-> dest, promotion |-> piece]

\* The promotion pieces in the order the move generator yields them.
PromotionPieces == <<"Q", "N", "R", "B">>

WhitePieces == {"P", "N", "B", "R", "Q", "K"}
BlackPieces == {"p", "n", "b", "r", "q", "k"}

BlackOf == [P |-> "p", N |-> "n", B |-> "b", R |-> "r", Q |-> "q", K |-> "k"]

\* The piece of a kind ("P", "N", ...) in the colour of a side.
PieceOf(white, kind) == IF white THEN kind ELSE BlackOf[kind]

KnightSteps ==
    {<<1, 2>>, <<2, 1>>, <<2, -1>>, <<1, -2>>,
     <<-1, -2>>, <<-2, -1>>, <<-2, 1>>, <<-1, 2>>}

\* The eight directions: those of the rook, then those of the bishop.
Directions ==
    <<<<1, 0>>, <<-1, 0>>, <<0, 1>>, <<0, -1>>,
      <<1, 1>>, <<1, -1>>, <<-1, 1>>, <<-1, -1>>>>

RookDirs == 1..4

BishopDirs == 5..8

KingSteps == {Directions[d] : d \in 1..8}

\* The squares one step away from sq by the given steps.
StepSquares(sq, steps) ==
    {SquareAt(FileOf(sq) + st[1], RankOf(sq) + st[2]) :
        st \in {st \in steps : Inside(FileOf(sq) + st[1], RankOf(sq) + st[2])}}

KnightSquares == [sq \in Squares |-> StepSquares(sq, KnightSteps)]

KingSquares == [sq \in Squares |-> StepSquares(sq, KingSteps)]

\* The squares from which a pawn of a side attacks sq.
PawnAttackers ==
    [white \in BOOLEAN |-> [sq \in Squares |->
        StepSquares(sq, IF white THEN {<<-1, -1>>, <<1, -1>>}
                        ELSE {<<-1, 1>>, <<1, 1>>})]]

\* The squares from (file, rank) to the edge of the board in one
\* direction, nearest first.
RECURSIVE Line(_, _, _)
Line(file, rank, dir) ==
    LET f == file + dir[1]
        r == rank + dir[2]
    IN  IF ~Inside(f, r) THEN <<>>
        ELSE <<SquareAt(f, r)>> \o Line(f, r, dir)

Lines == [sq \in Squares |-> [d \in 1..8 |->
            Line(FileOf(sq), RankOf(sq), Directions[d])]]

\* The first piece met along a line from its i-th square on, "." if none.
RECURSIVE FirstPiece(_, _, _)
FirstPiece(b, line, i) ==
    IF i > Len(line) THEN "."
    ELSE IF b[line[i]] # "." THEN b[line[i]]
    ELSE FirstPiece(b, line, i + 1)

\* The squares a sliding piece passes along a line from its i-th square
\* on: the empty ones and the first occupied one.
RECURSIVE Ray(_, _, _)
Ray(b, line, i) ==
    IF i > Len(line) THEN {}
    ELSE IF b[line[i]] # "." THEN {line[i]}
    ELSE {line[i]} \cup Ray(b, line, i + 1)

\* Whether a piece of the given side attacks sq on board b.
Attacked(b, sq, byWhite) ==
    \/ \E t \in KnightSquares[sq] : b[t] = PieceOf(byWhite, "N")
    \/ \E t \in KingSquares[sq] : b[t] = PieceOf(byWhite, "K")
    \/ \E t \in PawnAttackers[byWhite][sq] : b[t] = PieceOf(byWhite, "P")
    \/ \E d \in RookDirs :
            FirstPiece(b, Lines[sq][d], 1)
                \in {PieceOf(byWhite, "R"), PieceOf(byWhite, "Q")}
    \/ \E d \in BishopDirs :
            FirstPiece(b, Lines[sq][d], 1)
                \in {PieceOf(byWhite, "B"), PieceOf(byWhite, "Q")}

\* The piece a pawn of the side to move turns into.
Promoted(pos, piece) == PieceOf(pos.side = "White", piece)

\* The castling rights a move from source to dest takes away: the mover's
\* when its king moves, one when a rook leaves or is captured on its corner.
RightsLost(b, source, dest) ==
    (IF b[source] = "K" THEN {"K", "Q"} ELSE {})
        \cup (IF b[source] = "k" THEN {"k", "q"} ELSE {})
        \cup (IF SquareAt(8, 1) \in {source, dest} THEN {"K"} ELSE {})
        \cup (IF SquareAt(1, 1) \in {source, dest} THEN {"Q"} ELSE {})
        \cup (IF SquareAt(8, 8) \in {source, dest} THEN {"k"} ELSE {})
        \cup (IF SquareAt(1, 8) \in {source, dest} THEN {"q"} ELSE {})

\* Game::make_move: the piece goes from source to dest (a promoting pawn
\* turns into the promotion piece); an en-passant capture removes the pawn
\* that was passed; castling moves the rook over the king.
MakeMove(pos, mv) ==
    LET b == pos.board
        piece == b[mv.source]
        pawn == piece \in {"P", "p"}
        king == piece \in {"K", "k"}
        enPassant == /\ pawn
                     /\ mv.dest = pos.ep
                     /\ FileOf(mv.dest) # FileOf(mv.source)
        passed == SquareAt(FileOf(mv.dest), RankOf(mv.source))
        castles == king /\ FileOf(mv.source) = 5 /\ FileOf(mv.dest) \in {3, 7}
        rookFrom == SquareAt(IF FileOf(mv.dest) = 7 THEN 8 ELSE 1, RankOf(mv.source))
        rookTo == SquareAt(IF FileOf(mv.dest) = 7 THEN 6 ELSE 4, RankOf(mv.source))
        doublePush == pawn /\ (RankOf(mv.dest) - RankOf(mv.source)) \in {2, -2}
        placed == IF mv.promotion = "None" THEN piece
                  ELSE Promoted(pos, mv.promotion)
        moved == [[b EXCEPT ![mv.source] = "."] EXCEPT ![mv.dest] = placed]
    IN  [board |-> IF enPassant THEN [moved EXCEPT ![passed] = "."]
                   ELSE IF castles
                   THEN [moved EXCEPT ![rookFrom] = ".", ![rookTo] = b[rookFrom]]
                   ELSE moved,
         side |-> IF pos.side = "White" THEN "Black" ELSE "White",
         castle |-> pos.castle \ RightsLost(b, mv.source, mv.dest),
         ep |-> IF doublePush
                THEN SquareAt(FileOf(mv.source),
                              (RankOf(mv.source) + RankOf(mv.dest)) \div 2)
                ELSE NoSquare]

\* The moves of the pawn on s, the king's safety aside.
PawnMoves(pos, s) ==
    LET b == pos.board
        white == pos.side = "White"
        enemy == IF white THEN BlackPieces ELSE WhitePieces
        up == IF white THEN 1 ELSE -1
        home == IF white THEN 2 ELSE 7
        last == IF white THEN 8 ELSE 1
        ahead == StepSquares(s, {<<0, up>>})
        pushes == {t \in ahead : b[t] = "."}
        double == {t \in StepSquares(s, {<<0, 2 * up>>}) :
                        /\ RankOf(s) = home
                        /\ pushes # {}
                        /\ b[t] = "."}
        captures == {t \in StepSquares(s, {<<-1, up>>, <<1, up>>}) :
                        b[t] \in enemy \/ t = pos.ep}
        steps == pushes \cup captures
    IN  {ChessMove(s, t) : t \in {t \in steps : RankOf(t) # last} \cup double}
            \cup {ChessMovePromote(s, t, PromotionPieces[n]) :
                    t \in {t \in steps : RankOf(t) = last},
                    n \in 1..Len(PromotionPieces)}

\* Castling by the king on s: the right is held, the squares between king
\* and rook are empty, and the king is not in check, does not pass an
\* attacked square and (checked with every move) does not land on one.
CastlingMoves(pos, s) ==
    LET b == pos.board
        white == pos.side = "White"
        rank == IF white THEN 1 ELSE 8
        free(files) == \A f \in files : b[SquareAt(f, rank)] = "."
        safe(files) == \A f \in files : ~Attacked(b, SquareAt(f, rank), ~white)
    IN  IF s # SquareAt(5, rank) THEN {}
        ELSE (IF /\ PieceOf(white, "K") \in pos.castle
                 /\ free({6, 7})
                 /\ safe({5, 6})
              THEN {ChessMove(s, SquareAt(7, rank))} ELSE {})
             \cup
             (IF /\ PieceOf(white, "Q") \in pos.castle
                 /\ free({2, 3, 4})
                 /\ safe({5, 4})
              THEN {ChessMove(s, SquareAt(3, rank))} ELSE {})

\* The moves of the piece on s, the king's safety aside.
PseudoMoves(pos, s) ==
    LET b == pos.board
        white == pos.side = "White"
        own == IF white THEN WhitePieces ELSE BlackPieces
        slide(dirs) == UNION {Ray(b, Lines[s][d], 1) : d \in dirs}
        to(targets) == {ChessMove(s, t) : t \in {t \in targets : b[t] \notin own}}
    IN  IF b[s] \notin own THEN {}
        ELSE IF b[s] \in {"P", "p"} THEN PawnMoves(pos, s)
        ELSE IF b[s] \in {"N", "n"} THEN to(KnightSquares[s])
        ELSE IF b[s] \in {"B", "b"} THEN to(slide(BishopDirs))
        ELSE IF b[s] \in {"R", "r"} THEN to(slide(RookDirs))
        ELSE IF b[s] \in {"Q", "q"} THEN to(slide(RookDirs \cup BishopDirs))
        ELSE to(KingSquares[s]) \cup CastlingMoves(pos, s)

\* Whether the side that has just moved left its king attacked.
LeavesKingAttacked(pos, mv) ==
    LET white == pos.side = "White"
        after == MakeMove(pos, mv).board
    IN  \E k \in Squares :
            after[k] = PieceOf(white, "K") /\ Attacked(after, k, ~white)

\* The legal moves of the piece on s.
LegalFrom(pos, s) ==
    {mv \in PseudoMoves(pos, s) : ~LeavesKingAttacked(pos, mv)}

\* MoveGen::new_legal
LegalMoves(pos) == UNION {LegalFrom(pos, s) : s \in Squares}

\* The place of a move among the moves of one source and destination in
\* the generator's order.
GenIndex(mv) ==
    IF mv.promotion = "None" THEN 0
    ELSE CHOOSE n \in 1..Len(PromotionPieces) : PromotionPieces[n] = mv.promotion

\* Board::legal: the move is one of the legal moves (those from its source).
Legal(pos, mv) == mv.source \in Squares /\ mv \in LegalFrom(pos, mv.source)

\* Game::side_to_move
SideToMove(pos) == pos.side

\* GameChain::get_game: replays the stored moves by their two squares,
\* taking the first legal move the generator yields for them; panicked
\* when a stored move matches no legal move of its position.
RECURSIVE Replay(_, _)
Replay(pos, ms) ==
    IF ms = <<>> THEN [panicked |-> FALSE, pos |-> pos]
    ELSE LET matching == IF ms[1].start_square \notin Squares THEN {}
                         ELSE {mv \in LegalFrom(pos, ms[1].start_square) :
                                    ms[1].end_square = mv.dest}
         IN  IF matching = {} THEN [panicked |-> TRUE, pos |-> pos]
             ELSE LET first == CHOOSE mv \in matching :
                                \A o \in matching : GenIndex(mv) <= GenIndex(o)
                  IN  Replay(MakeMove(pos, first), Tail(ms))

GetGame(c) == Replay(InitialPosition, c.moves)

\* ----------------------------------------------------- GameChain::accept
ErrKeyNotInChallenge == "This key is not in the challenge block."
ErrDuplicateKey == "This key is already present in the chain."
ErrChainFull == "There are already two signatures on this chain."

\* accept's first step: a lone accept in slot 1 is moved to slot 0.
Normalize(c) ==
    IF IsNone(c.accepts[1]) /\ IsSome(c.accepts[2])
    THEN [c EXCEPT !.accepts = <<c.accepts[2], None>>]
    ELSE c

\* accept without the check that slot 0 already verifies under the key.
AcceptNoDuplicateCheck(c, k) ==
    IF /\ PublicKey(k) # c.challenge.white_public_key
       /\ PublicKey(k) # c.challenge.black_public_key
    THEN [chain |-> c, result |-> ErrKeyNotInChallenge]
    ELSE LET n == Normalize(c)
         IN  IF IsNone(n.accepts[1])
             THEN [chain |-> [n EXCEPT !.accepts[1] = Some(AcceptNew(n.challenge, k))],
                   result |-> "Ok"]
             ELSE IF IsNone(n.accepts[2])
             THEN [chain |-> [n EXCEPT !.accepts[2] = Some(AcceptNew(n.challenge, k))],
                   result |-> "Ok"]
             ELSE [chain |-> n, result |-> ErrChainFull]

\* accept filling slot 1 before it looks for a duplicate.
AcceptWritesBeforeCheck(c, k) ==
    IF /\ PublicKey(k) # c.challenge.white_public_key
       /\ PublicKey(k) # c.challenge.black_public_key
    THEN [chain |-> c, result |-> ErrKeyNotInChallenge]
    ELSE LET n == Normalize(c)
         IN  IF IsNone(n.accepts[1])
             THEN [chain |-> [n EXCEPT !.accepts[1] = Some(AcceptNew(n.challenge, k))],
                   result |-> "Ok"]
             ELSE IF IsNone(n.accepts[2])
             THEN [chain |-> [n EXCEPT !.accepts[2] = Some(AcceptNew(n.challenge, k))],
                   result |-> IF CryptoVerify(PublicKey(k),
                                              ChallengeAsBytes(n.challenge),
                                              Unwrap(n.accepts[1]).signature)
                              THEN ErrDuplicateKey ELSE "Ok"]
             ELSE [chain |-> n, result |-> ErrChainFull]

\* The chain after the call and the call's result ("Ok" or the Err text).
Accept(c, k) ==
    IF /\ PublicKey(k) # c.challenge.white_public_key
       /\ PublicKey(k) # c.challenge.black_public_key
    THEN [chain |-> c, result |-> ErrKeyNotInChallenge]
    ELSE LET n == Normalize(c)
         IN  IF IsNone(n.accepts[1])
             THEN [chain |-> [n EXCEPT !.accepts[1] = Some(AcceptNew(n.challenge, k))],
                   result |-> "Ok"]
             ELSE IF IsNone(n.accepts[2])
             THEN IF CryptoVerify(PublicKey(k), ChallengeAsBytes(n.challenge),
                                  Unwrap(n.accepts[1]).signature)
                  THEN [chain |-> n, result |-> ErrDuplicateKey]
                  ELSE [chain |-> [n EXCEPT !.accepts[2] =
                                        Some(AcceptNew(n.challenge, k))],
                        result |-> "Ok"]
             ELSE [chain |-> n, result |-> ErrChainFull]

\* -------------------------------------------- GameChain::make_move_block
ErrWrongSigner == "This key cannot sign the current move."
ErrIllegalMove == "Invalid move."
ErrUnsupportedAction == "Action not implemented"
Panic == "panic"

\* Action::MakeMove(mv) and one of the other variants of Action.
ActMakeMove(mv) == [kind |-> "MakeMove", mv |-> mv]
ActResign == [kind |-> "Resign", mv |-> ChessMove(0, 0)]

\* make_move_block with one of its steps changed: the signer compared with
\* the key of the color that is not on move (swapped), no signer check
\* (anySigner), no legality check (anyMove), or the block inserted at the
\* front of the move list (prepend).
MakeMoveBlockVariant(c, k, action, swapped, anySigner, anyMove, prepend) ==
    LET replayed == GetGame(c)
        game == replayed.pos
    IN  IF replayed.panicked THEN [chain |-> c, result |-> Panic]
        ELSE LET public_key_to_move ==
                     IF (SideToMove(game) = "White") # swapped
                     THEN c.challenge.white_public_key
                     ELSE c.challenge.black_public_key
             IN  IF ~anySigner /\ public_key_to_move # PublicKey(k)
                 THEN [chain |-> c, result |-> ErrWrongSigner]
                 ELSE IF action.kind = "MakeMove"
                 THEN IF ~anyMove /\ ~Legal(game, action.mv)
                      THEN [chain |-> c, result |-> ErrIllegalMove]
                      ELSE LET block ==
                                   [start_square |-> action.mv.source,
                                    end_square |-> action.mv.dest,
                                    signature |-> CryptoSign(k, AsBytes(c)
                                        \o <<B(action.mv.source), B(action.mv.dest)>>)]
                           IN  [chain |-> [c EXCEPT !.moves =
                                              IF prepend THEN <<block>> \o @
                                              ELSE Append(@, block)],
                                result |-> "Ok"]
                 ELSE [chain |-> c, result |-> ErrUnsupportedAction]

MakeMoveBlockSwappedSigner(c, k, action) ==
    MakeMoveBlockVariant(c, k, action, TRUE, FALSE, FALSE, FALSE)

MakeMoveBlockAnySigner(c, k, action) ==
    MakeMoveBlockVariant(c, k, action, FALSE, TRUE, FALSE, FALSE)

MakeMoveBlockAnyMove(c, k, action) ==
    MakeMoveBlockVariant(c, k, action, FALSE, FALSE, TRUE, FALSE)

MakeMoveBlockPrepend(c, k, action) ==
    MakeMoveBlockVariant(c, k, action, FALSE, FALSE, FALSE, TRUE)

MakeMoveBlock(c, k, action) ==
    LET replayed == GetGame(c)
        game == replayed.pos
    IN  IF replayed.panicked THEN [chain |-> c, result |-> Panic]
        ELSE LET public_key_to_move ==
                     IF SideToMove(game) = "White"
                     THEN c.challenge.white_public_key
                     ELSE c.challenge.black_public_key
             IN  IF public_key_to_move # PublicKey(k)
                 THEN [chain |-> c, result |-> ErrWrongSigner]
                 ELSE IF action.kind = "MakeMove"
                 THEN IF ~Legal(game, action.mv)
                      THEN [chain |-> c, result |-> ErrIllegalMove]
                      ELSE LET start_square == action.mv.source
                               end_square == action.mv.dest
                               chain_bytes == AsBytes(c)
                                   \o <<B(start_square), B(end_square)>>
                               block == [start_square |-> start_square,
                                         end_square |-> end_square,
                                         signature |-> CryptoSign(k, chain_bytes)]
                           IN  [chain |-> [c EXCEPT !.moves = Append(@, block)],
                                result |-> "Ok"]
                 ELSE [chain |-> c, result |-> ErrUnsupportedAction]

\* ----------------------------------------------------- GameChain::verify
\* The accept check with only the (white, black) assignment.
AcceptsVerifyWhiteFirst(c) ==
    LET cb == ChallengeAsBytes(c.challenge)
    IN  /\ CryptoVerify(c.challenge.white_public_key, cb,
                        Unwrap(c.accepts[1]).signature)
        /\ CryptoVerify(c.challenge.black_public_key, cb,
                        Unwrap(c.accepts[2]).signature)

\* The accept check asking of each slot only that some challenge key
\* signed it.
AcceptsVerifyAnyKey(c) ==
    LET cb == ChallengeAsBytes(c.challenge)
        w == c.challenge.white_public_key
        b == c.challenge.black_public_key
    IN  \A s \in 1..2 :
            \/ CryptoVerify(w, cb, Unwrap(c.accepts[s]).signature)
            \/ CryptoVerify(b, cb, Unwrap(c.accepts[s]).signature)

\* The accept check looking at slot 0 only.
AcceptsVerifySlot0(c) ==
    LET cb == ChallengeAsBytes(c.challenge)
        s0 == Unwrap(c.accepts[1]).signature
    IN  \/ CryptoVerify(c.challenge.white_public_key, cb, s0)
        \/ CryptoVerify(c.challenge.black_public_key, cb, s0)

\* The accept check: the two accepts validate under (white, black) for
\* (slot 0, slot 1) or for (slot 1, slot 0).
AcceptsVerify(c) ==
    LET cb == ChallengeAsBytes(c.challenge)
        s0 == Unwrap(c.accepts[1]).signature
        s1 == Unwrap(c.accepts[2]).signature
        w == c.challenge.white_public_key
        b == c.challenge.black_public_key
    IN  \/ CryptoVerify(w, cb, s0) /\ CryptoVerify(b, cb, s1)
        \/ CryptoVerify(w, cb, s1) /\ CryptoVerify(b, cb, s0)

\* The payload verify recomputes for the move at index i (from 1): the
\* chain as it was before that move, followed by the move's two squares.
MovePayload(c, i) ==
    AsBytes([c EXCEPT !.moves = SubSeq(c.moves, 1, i - 1)])
        \o <<B(c.moves[i].start_square), B(c.moves[i].end_square)>>

\* keys.0 never swapped: every move checked under the White key.
MoveKeyWhite(c, i) == c.challenge.white_public_key

\* keys.0 at the i-th iteration (from 1): white, black, white, ...
MoveKey(c, i) ==
    IF i % 2 = 1 THEN c.challenge.white_public_key
    ELSE c.challenge.black_public_key

\* The move loop stopping after the first move.
MovesVerifyFirstOnly(c) ==
    \A i \in 1..Len(c.moves) :
        i = 1 => CryptoVerify(MoveKey(c, i), MovePayload(c, i), c.moves[i].signature)

MovesVerify(c) ==
    \A i \in 1..Len(c.moves) :
        CryptoVerify(MoveKey(c, i), MovePayload(c, i), c.moves[i].signature)

\* verify returning false only when both accept slots are empty, and
\* checking the slots that are filled.
VerifyFilledSlots(c) ==
    IF IsNone(c.accepts[1]) /\ IsNone(c.accepts[2]) THEN FALSE
    ELSE /\ \A s \in 1..2 :
                IsSome(c.accepts[s]) =>
                    \/ CryptoVerify(c.challenge.white_public_key,
                                    ChallengeAsBytes(c.challenge),
                                    Unwrap(c.accepts[s]).signature)
                    \/ CryptoVerify(c.challenge.black_public_key,
                                    ChallengeAsBytes(c.challenge),
                                    Unwrap(c.accepts[s]).signature)
         /\ MovesVerify(c)

Verify(c) ==
    IF IsNone(c.accepts[1]) \/ IsNone(c.accepts[2]) THEN FALSE
    ELSE IF ~AcceptsVerify(c) THEN FALSE
    ELSE MovesVerify(c)

BothFilled(c) == IsSome(c.accepts[1]) /\ IsSome(c.accepts[2])

\* ------------------------------------------------------------ the state
VARIABLES
    chain,      \* the GameChain under construction
    other,      \* the GameChain of a second game (used by SpecReplay)
    prev,       \* chain as it was before the last call
    op,         \* the last call: its name, signing key and action
    result,     \* the last call's result: "Ok", an Err text or Panic
    accepted,   \* the keys whose accept() succeeded, in order
    tamper,     \* what a test has overwritten in chain, if anything,
                \* "aborted" once an overwrite has panicked, or "foreign"
                \* once chain was decoded from bytes that no as_bytes call
                \* produced
    played      \* the moves make_move_block appended to chain, in order

vars == <<chain, other, prev, op, result, accepted, tamper, played>>

\* The moves and actions offered to make_move_block: e2e4, f2f4 and e4e5
\* are white pawn pushes, e7e5 and d7d5 black ones, e2e5 is legal in no
\* position.
MoveInputs ==
    {ChessMove(SquareAt(5, 2), SquareAt(5, 4)),
     ChessMove(SquareAt(6, 2), SquareAt(6, 4)),
     ChessMove(SquareAt(5, 7), SquareAt(5, 5)),
     ChessMove(SquareAt(4, 7), SquareAt(4, 5)),
     ChessMove(SquareAt(5, 4), SquareAt(5, 5)),
     ChessMove(SquareAt(5, 2), SquareAt(5, 5))}

ActionInputs == {ActMakeMove(mv) : mv \in MoveInputs} \cup {ActResign}

\* The signature bytes a test overwrites (Rust indices): first and last.
TamperBytes == {0, 63}

NoTamper == [kind |-> "none", index |-> 0, byte |-> 0]

\* No overwritten byte is outstanding: the public operations may be called.
Untampered == tamper.kind \in {"none", "restored", "foreign"}

\* tamper after a public operation: a decoded foreign chain stays marked.
AfterCall == IF tamper.kind = "foreign" THEN tamper ELSE NoTamper

Op(name, k, action) == [name |-> name, key |-> k, action |-> action]

\* ChallengeBlock::new on the public keys of two key pairs (possibly the
\* same pair twice), then GameChain::new.  Key pairs differ only by name,
\* so White's pair is called 1 and Black's ranges over all pairs.
Init ==
    /\ \E b \in Keys :
          chain = GameChainNew(ChallengeNew(PublicKey(1), PublicKey(b)))
    /\ other = GameChainNew(ChallengeNew(PublicKey(1), PublicKey(1)))
    /\ prev = chain
    /\ op = Op("new", 0, ActResign)
    /\ result = "Ok"
    /\ accepted = <<>>
    /\ tamper = NoTamper
    /\ played = <<>>

CallAccept(k) ==
    /\ Untampered
    /\ LET r == Accept(chain, k)
       IN  /\ chain' = r.chain
           /\ result' = r.result
           /\ accepted' = IF r.result = "Ok" THEN Append(accepted, k) ELSE accepted
    /\ prev' = chain
    /\ op' = Op("accept", k, ActResign)
    /\ tamper' = AfterCall
    /\ UNCHANGED <<other, played>>

CallMakeMoveBlock(k, action) ==
    /\ Untampered
    /\ Len(chain.moves) < MaxMoves
    /\ LET r == MakeMoveBlock(chain, k, action)
       IN  /\ chain' = r.chain
           /\ result' = r.result
           /\ played' = IF r.result = "Ok" THEN Append(played, action.mv)
                         ELSE played
    /\ prev' = chain
    /\ op' = Op("make_move_block", k, action)
    /\ tamper' = AfterCall
    /\ UNCHANGED <<other, accepted>>

Next ==
    \/ \E k \in Keys : CallAccept(k)
    \/ \E k \in Keys, action \in ActionInputs : CallMakeMoveBlock(k, action)

Spec == Init /\ [][Next]_vars

\* ------------------------------------------------ encode, then decode
\* GameChain::from_bytes(&chain.as_bytes()); the caller goes on with the
\* decoded chain (unwrap), as test::chain_to_bytes_and_back compares it.
CallFromBytes ==
    /\ Untampered
    /\ LET r == FromBytes(AsBytes(chain))
       IN  /\ chain' = IF r.ok THEN r.val ELSE chain
           /\ result' = IF r.ok THEN "Ok" ELSE r.err
           /\ played' = IF r.ok THEN <<>> ELSE played
    /\ prev' = chain
    /\ op' = Op("from_bytes", 0, ActResign)
    /\ tamper' = AfterCall
    /\ UNCHANGED <<other, accepted>>

NextCodec ==
    \/ Next
    \/ CallFromBytes

SpecCodec == Init /\ [][NextCodec]_vars

\* ------------------------------------------------- decoding any bytes
\* The lengths an encoding is cut to: one byte short of the challenge, the
\* challenge, the challenge and the first accept.
TruncLens == {ChallengeLen - 1, ChallengeLen, ChallengeLen + SigLen}

\* The byte strings handed to the decoders: the chain's encoding, its
\* truncations, and the challenge followed by the first accept block twice.
DecodeInputs(c) ==
    LET full == AsBytes(c)
    IN  {full}
            \cup {SubSeq(full, 1, n) : n \in {m \in TruncLens : m <= Len(full)}}
            \cup (IF IsSome(c.accepts[1])
                  THEN {ChallengeAsBytes(c.challenge)
                            \o AcceptAsBytes(Unwrap(c.accepts[1]))
                            \o AcceptAsBytes(Unwrap(c.accepts[1]))}
                  ELSE {})

IsPrefix(bytes, full) ==
    /\ Len(bytes) <= Len(full)
    /\ bytes = SubSeq(full, 1, Len(bytes))

\* The keys whose accept blocks a chain holds, in slot order.
AcceptedIn(c) ==
    LET keyOf(a) == CHOOSE k \in Keys : PublicKey(k) = a.signature[1].d[1]
        filled == SelectSeq(c.accepts, LAMBDA a : a # None)
    IN  [i \in 1..Len(filled) |-> keyOf(Unwrap(filled[i]))]

OpDecode(name, bytes) ==
    [name |-> name, key |-> 0, action |-> ActResign, len |-> Len(bytes)]

\* GameChain::from_bytes(bytes); on Ok the caller goes on with the decoded
\* chain.  Bytes that are no prefix of the chain's encoding are foreign; a
\* prefix holding fewer than two accept blocks is the encoding of a chain
\* that new and accept build.
CallFromBytesOf(bytes) ==
    /\ Untampered
    /\ LET r == FromBytes(bytes)
       IN  /\ chain' = IF r.ok THEN r.val ELSE chain
           /\ result' = IF r.ok THEN "Ok" ELSE r.err
           /\ tamper' = IF r.ok /\ ~IsPrefix(bytes, AsBytes(chain))
                         THEN [kind |-> "foreign", index |-> 0, byte |-> 0]
                         ELSE IF r.ok /\ ~BothFilled(r.val) THEN NoTamper
                         ELSE AfterCall
           /\ accepted' = IF r.ok THEN AcceptedIn(r.val) ELSE accepted
           /\ played' = IF r.ok THEN <<>> ELSE played
    /\ prev' = chain
    /\ op' = OpDecode("from_bytes", bytes)
    /\ UNCHANGED other

\* ChallengeBlock::from_bytes(bytes): the decoded block on success, a panic
\* when a slice bound lies past the end of bytes.  A challenge is decoded
\* when it is received, before anyone has accepted it.
CallChallengeFromBytes(bytes) ==
    /\ Untampered
    /\ IsNone(chain.accepts[1])
    /\ result' = IF ChallengeFromBytesPanics(bytes) THEN Panic
                  ELSE IF ChallengeFromBytes(bytes) = chain.challenge THEN "Ok"
                  ELSE "Differs"
    /\ prev' = chain
    /\ op' = OpDecode("challenge_from_bytes", bytes)
    /\ tamper' = AfterCall
    /\ UNCHANGED <<chain, other, accepted, played>>

NextDecode ==
    \/ Next
    \/ \E bytes \in DecodeInputs(chain) : CallFromBytesOf(bytes)
    \/ \E bytes \in {b \in DecodeInputs(chain) : Len(b) <= ChallengeLen} :
            CallChallengeFromBytes(bytes)

SpecDecode == Init /\ [][NextDecode]_vars

\* ------------------------------------------- tests overwriting the chain
\* sig[j] += d on the u8 at Rust index j: the bytes after it, or, when the
\* result does not fit a u8, either a panic (overflow checks on, as in a
\* test build) or the wrapped value (overflow checks off).
AddToByte(sig, j, d) ==
    LET n == sig[j + 1].v + d
    IN  IF n \in 0..255
        THEN {[panicked |-> FALSE, sig |-> [sig EXCEPT ![j + 1].v = n]]}
        ELSE {[panicked |-> TRUE, sig |-> sig],
              [panicked |-> FALSE, sig |-> [sig EXCEPT ![j + 1].v = n % 256]]}

\* The values the signer may have produced for a signature byte, as far as
\* += 1 can tell them apart: below 255, and 255.
SigByteValues == {0, 255}

\* sig[j] += d on a signature whose byte j the signer produced as x.
SignatureByteOutcomes(sig, j, d, x) ==
    LET now == (x + sig[j + 1].v) % 256
    IN  {[panicked |-> o.panicked,
          sig |-> IF o.panicked THEN sig
                  ELSE [sig EXCEPT ![j + 1].v = (o.sig[1].v - x) % 256]] :
            o \in AddToByte(<<B(now)>>, 0, d)}

\* sig[j] += d whatever the signer produced for byte j.
SignatureOutcomes(sig, j, d) ==
    UNION {SignatureByteOutcomes(sig, j, d, x) : x \in SigByteValues}

\* chain.moves[i].signature[j] += 1 (test::make_moves), i from 1.  A panic
\* ends the run with the chain as it was.
CorruptMoveSignature(i, j) ==
    /\ Untampered
    /\ i \in 1..Len(chain.moves)
    /\ \E out \in SignatureOutcomes(chain.moves[i].signature, j, 1) :
              /\ chain' = [chain EXCEPT !.moves[i].signature = out.sig]
              /\ tamper' = [kind |-> IF out.panicked THEN "aborted" ELSE "move",
                            index |-> i, byte |-> j]
              /\ result' = IF out.panicked THEN Panic ELSE "Ok"
    /\ prev' = chain
    /\ op' = Op("corrupt_move", 0, ActResign)
    /\ UNCHANGED <<other, accepted, played>>

\* chain.moves[i].signature[j] -= 1 on the byte that was incremented.  The
\* decrement cannot panic: it leaves the u8 range only after an increment
\* that wrapped, in a build without overflow checks.
RestoreMoveSignature ==
    /\ tamper.kind = "move"
    /\ \E out \in SignatureOutcomes(chain.moves[tamper.index].signature,
                                   tamper.byte, -1) :
              /\ ~out.panicked
              /\ chain' = [chain EXCEPT !.moves[tamper.index].signature = out.sig]
    /\ tamper' = [tamper EXCEPT !.kind = "restored", !.byte = 0]
    /\ prev' = chain
    /\ op' = Op("restore_move", 0, ActResign)
    /\ result' = IF Verify(prev) THEN "WasValid" ELSE "WasInvalid"
    /\ UNCHANGED <<other, accepted, played>>

\* The same on the signature in accept slot s (1 or 2).
CorruptAcceptSignature(s, j) ==
    /\ Untampered
    /\ IsSome(chain.accepts[s])
    /\ \E out \in SignatureOutcomes(chain.accepts[s][1].signature, j, 1) :
              /\ chain' = [chain EXCEPT !.accepts[s][1].signature = out.sig]
              /\ tamper' = [kind |-> IF out.panicked THEN "aborted" ELSE "accept",
                            index |-> s, byte |-> j]
              /\ result' = IF out.panicked THEN Panic ELSE "Ok"
    /\ prev' = chain
    /\ op' = Op("corrupt_accept", 0, ActResign)
    /\ UNCHANGED <<other, accepted, played>>

RestoreAcceptSignature ==
    /\ tamper.kind = "accept"
    /\ \E out \in SignatureOutcomes(chain.accepts[tamper.index][1].signature,
                                   tamper.byte, -1) :
              /\ ~out.panicked
              /\ chain' = [chain EXCEPT !.accepts[tamper.index][1].signature = out.sig]
    /\ tamper' = [tamper EXCEPT !.kind = "restored", !.byte = 0]
    /\ prev' = chain
    /\ op' = Op("restore_accept", 0, ActResign)
    /\ result' = IF Verify(prev) THEN "WasValid" ELSE "WasInvalid"
    /\ UNCHANGED <<other, accepted, played>>

\* chain.accepts[1] = chain.accepts[0].clone() (test::chain_verify_fails),
\* and the same from slot 1 to slot 0: s is the slot copied from.
DuplicateAccept(s) ==
    /\ Untampered
    /\ IsSome(chain.accepts[s])
    /\ chain' = [chain EXCEPT !.accepts[3 - s] = chain.accepts[s]]
    /\ tamper' = [kind |-> "duplicate", index |-> s, byte |-> 0]
    /\ prev' = chain
    /\ op' = Op("duplicate_accept", 0, ActResign)
    /\ result' = "Ok"
    /\ UNCHANGED <<other, accepted, played>>

NextTamper ==
    \/ Next
    \/ \E i \in 1..MaxMoves, j \in TamperBytes : CorruptMoveSignature(i, j)
    \/ RestoreMoveSignature
    \/ \E s \in 1..2, j \in TamperBytes : CorruptAcceptSignature(s, j)
    \/ RestoreAcceptSignature
    \/ \E s \in 1..2 : DuplicateAccept(s)

SpecTamper == Init /\ [][NextTamper]_vars

\* ------------------------------------- a stored chain altered in place
\* The scalar fields of a ChallengeBlock and the fields holding a key.
ScalarFields == {"version", "network_id", "id", "paired_game_id", "timestamp"}

KeyFields == {"white_public_key", "black_public_key"}

Altered(kind, i) == [kind |-> kind, index |-> i, byte |-> 0]

\* chain.challenge.<field> += 1 on a scalar field.
AlterChallengeScalar(field) ==
    /\ Untampered
    /\ chain' = [chain EXCEPT !.challenge[field] = @ + 1]
    /\ tamper' = Altered("challenge", 0)
    /\ prev' = chain
    /\ op' = Op("alter_challenge", 0, ActResign)
    /\ result' = "Ok"
    /\ UNCHANGED <<other, accepted, played>>

\* chain.challenge.<field> = another key pair's public key.
AlterChallengeKey(field, k) ==
    /\ Untampered
    /\ chain.challenge[field] # PublicKey(k)
    /\ chain' = [chain EXCEPT !.challenge[field] = PublicKey(k)]
    /\ tamper' = Altered("challenge", 0)
    /\ prev' = chain
    /\ op' = Op("alter_challenge", k, ActResign)
    /\ result' = "Ok"
    /\ UNCHANGED <<other, accepted, played>>

\* chain.accepts.swap(0, 1) on two different accept blocks.
SwapAccepts ==
    /\ Untampered
    /\ BothFilled(chain)
    /\ chain.accepts[1] # chain.accepts[2]
    /\ chain' = [chain EXCEPT !.accepts = <<chain.accepts[2], chain.accepts[1]>>]
    /\ tamper' = Altered("swap", 0)
    /\ prev' = chain
    /\ op' = Op("swap_accepts", 0, ActResign)
    /\ result' = "Ok"
    /\ UNCHANGED <<other, accepted, played>>

\* chain.moves[i].<field> moved one rank up (wrapping), i from 1.
AlterMoveSquare(i, field) ==
    /\ Untampered
    /\ i \in 1..Len(chain.moves)
    /\ chain' = [chain EXCEPT !.moves[i][field] = (@ + 8) % 64]
    /\ tamper' = Altered("square", i)
    /\ prev' = chain
    /\ op' = Op("alter_square", 0, ActResign)
    /\ result' = "Ok"
    /\ UNCHANGED <<other, accepted, played>>

NextAlter ==
    \/ Next
    \/ \E field \in ScalarFields : AlterChallengeScalar(field)
    \/ \E field \in KeyFields, k \in Keys : AlterChallengeKey(field, k)
    \/ SwapAccepts
    \/ \E i \in 1..MaxMoves, field \in {"start_square", "end_square"} :
            AlterMoveSquare(i, field)
    \/ \E s \in 1..2, j \in TamperBytes : CorruptAcceptSignature(s, j)
    \/ \E i \in 1..MaxMoves, j \in TamperBytes : CorruptMoveSignature(i, j)

SpecAlter == Init /\ [][NextAlter]_vars

\* ------------------------------------------- a block replayed elsewhere
\* A second game is created by ChallengeBlock::new between any two key
\* pairs; the blocks signed in the first game are then placed, in the same
\* positions, in the second game's chain.
InitReplay ==
    /\ \E b \in Keys :
          chain = GameChainNew(ChallengeNew(PublicKey(1), PublicKey(b)))
    /\ \E w2 \in Keys, b2 \in Keys :
          other = GameChainNew(ChallengeNew(PublicKey(w2), PublicKey(b2)))
    /\ prev = chain
    /\ op = Op("new", 0, ActResign)
    /\ result = "Ok"
    /\ accepted = <<>>
    /\ tamper = NoTamper
    /\ played = <<>>

ReplayBlocks ==
    /\ Untampered
    /\ other' = [other EXCEPT !.accepts = chain.accepts, !.moves = chain.moves]
    /\ tamper' = [kind |-> "replay", index |-> 0, byte |-> 0]
    /\ prev' = chain
    /\ op' = Op("replay", 0, ActResign)
    /\ result' = "Ok"
    /\ UNCHANGED <<chain, accepted, played>>

NextReplay ==
    \/ Next
    \/ ReplayBlocks

SpecReplay == InitReplay /\ [][NextReplay]_vars

\* ------------------------------------------- a game reaching a promotion
MaxPlies == 9

\* The moves offered: 1. h4 g5 2. hxg5 a6 3. g6 a5 4. gxh7 a4 and then
\* 5. hxg8 with each promotion piece and with none; a4a3 follows.
PromotionInputs ==
    {ChessMove(SquareAt(8, 2), SquareAt(8, 4)),
     ChessMove(SquareAt(7, 7), SquareAt(7, 5)),
     ChessMove(SquareAt(8, 4), SquareAt(7, 5)),
     ChessMove(SquareAt(1, 7), SquareAt(1, 6)),
     ChessMove(SquareAt(7, 5), SquareAt(7, 6)),
     ChessMove(SquareAt(1, 6), SquareAt(1, 5)),
     ChessMove(SquareAt(7, 6), SquareAt(8, 7)),
     ChessMove(SquareAt(1, 5), SquareAt(1, 4)),
     ChessMove(SquareAt(1, 4), SquareAt(1, 3)),
     ChessMove(SquareAt(8, 7), SquareAt(7, 8))}
        \cup {ChessMovePromote(SquareAt(8, 7), SquareAt(7, 8), PromotionPieces[n]) :
                n \in 1..Len(PromotionPieces)}

\* A game between key pairs 1 (White) and 2 (Black) that both have
\* accepted: GameChain::new, accept(white), accept(black).
InitPromotion ==
    /\ chain = Accept(Accept(GameChainNew(ChallengeNew(PublicKey(1), PublicKey(2))),
                             1).chain, 2).chain
    /\ other = GameChainNew(ChallengeNew(PublicKey(1), PublicKey(1)))
    /\ prev = chain
    /\ op = Op("accept", 2, ActResign)
    /\ result = "Ok"
    /\ accepted = <<1, 2>>
    /\ tamper = NoTamper
    /\ played = <<>>

\* make_move_block on the moves of the line.
CallMakeMoveBlockOnLine(k, action) ==
    /\ Untampered
    /\ Len(chain.moves) < MaxPlies
    /\ LET r == MakeMoveBlock(chain, k, action)
       IN  /\ chain' = r.chain
           /\ result' = r.result
           /\ played' = IF r.result = "Ok" THEN Append(played, action.mv)
                         ELSE played
    /\ prev' = chain
    /\ op' = Op("make_move_block", k, action)
    /\ tamper' = AfterCall
    /\ UNCHANGED <<other, accepted>>

NextPromotion ==
    \E k \in Keys, mv \in PromotionInputs : CallMakeMoveBlockOnLine(k, ActMakeMove(mv))

SpecPromotion == InitPromotion /\ [][NextPromotion]_vars

\* ================================================================ claims
BothAccepts(c) == IsSome(c.accepts[1]) /\ IsSome(c.accepts[2])

NumAccepts(c) ==
    (IF IsSome(c.accepts[1]) THEN 1 ELSE 0) + (IF IsSome(c.accepts[2]) THEN 1 ELSE 0)

Range(seq) == {seq[i] : i \in 1..Len(seq)}

\* The keys whose accept() had succeeded before the last call.
AcceptedBefore ==
    IF op.name = "accept" /\ result = "Ok"
    THEN SubSeq(accepted, 1, Len(accepted) - 1)
    ELSE accepted

DistinctPlayers(c) == c.challenge.white_public_key # c.challenge.black_public_key

\* C1 (SpecCodec): decoding the encoding of a chain with both accept slots
\* filled, whatever its move history, succeeds and yields an equal chain,
\* move list included.
C1_ChainRoundTrip ==
    (op.name = "from_bytes" /\ BothAccepts(prev))
        => (result = "Ok" /\ chain = prev)

\* C2 (Spec): after any sequence of successful accept and make_move_block
\* calls on a fresh chain, every state with both accept slots filled
\* verifies.
C2_VerifiesOnceAccepted == BothAccepts(chain) => Verify(chain)

\* C3 (Spec): make_move_block succeeds only when both accept slots are
\* filled, so no chain holds a move while an accept slot is empty.
C3_MovesOnlyAfterAccepts ==
    /\ (op.name = "make_move_block" /\ result = "Ok") => BothAccepts(prev)
    /\ chain.moves # <<>> => BothAccepts(chain)

\* C4 as stated (Spec): every accept with a key that already accepted
\* fails with DuplicateKey and adds no accept block.
C4_RepeatFailsDuplicateKey ==
    (op.name = "accept" /\ op.key \in Range(AcceptedBefore))
        => (result = ErrDuplicateKey /\ chain.accepts = prev.accepts)

\* C4 as amended (Spec): every accept with a key that already accepted
\* fails and adds no accept block; the failure is DuplicateKey while one
\* slot is filled and ChainFull once both are.
C4_RepeatFails ==
    (op.name = "accept" /\ op.key \in Range(AcceptedBefore))
        => /\ chain.accepts = prev.accepts
           /\ chain = prev
           /\ NumAccepts(prev) = 1 => result = ErrDuplicateKey
           /\ NumAccepts(prev) = 2 => result = ErrChainFull
           /\ NumAccepts(prev) \in {1, 2}

C4_Witness ==
    /\ op.name = "accept"
    /\ op.key \in Range(AcceptedBefore)
    /\ Len(accepted) = 2
    /\ accepted[1] # op.key
    /\ result = ErrChainFull
    /\ chain = prev

\* A block of the second game's chain verifying where it stands: an accept
\* under one of that game's keys over its challenge, a move under the key
\* of its turn over that chain's prefix.
AcceptVerifiesIn(c, s) ==
    /\ IsSome(c.accepts[s])
    /\ \/ CryptoVerify(c.challenge.white_public_key, ChallengeAsBytes(c.challenge),
                       Unwrap(c.accepts[s]).signature)
       \/ CryptoVerify(c.challenge.black_public_key, ChallengeAsBytes(c.challenge),
                       Unwrap(c.accepts[s]).signature)

MoveVerifiesIn(c, i) ==
    CryptoVerify(MoveKey(c, i), MovePayload(c, i), c.moves[i].signature)

\* C5 (SpecReplay): no accept or move block signed in the first game
\* verifies in the chain of the second game, also when the second game was
\* created between the same two keys with the same colors.
C5_NoReplayAcrossGames ==
    tamper.kind = "replay"
        => /\ \A s \in 1..2 : ~AcceptVerifiesIn(other, s)
           /\ \A i \in 1..Len(other.moves) : ~MoveVerifiesIn(other, i)

\* C6 (Spec): on a fresh chain whose challenge names two different keys,
\* the first accept by either of them succeeds, the following accept by
\* the other one succeeds, and after the two accepts, in either order, the
\* chain verifies.
C6_AcceptOrderIndependent ==
    DistinctPlayers(prev) =>
        LET players == {k \in Keys :
                            \/ PublicKey(k) = prev.challenge.white_public_key
                            \/ PublicKey(k) = prev.challenge.black_public_key}
        IN  /\ (/\ op.name = "accept"
                /\ op.key \in players
                /\ prev = GameChainNew(prev.challenge))
                   => result = "Ok"
            /\ (/\ op.name = "accept"
                /\ op.key \in players
                /\ Len(AcceptedBefore) = 1
                /\ AcceptedBefore[1] # op.key
                /\ prev.moves = <<>>)
                   => (result = "Ok" /\ Verify(chain))
            /\ (Len(accepted) = 2 /\ chain.moves = <<>>)
                   => (Range(accepted) = players /\ Verify(chain))

\* Black accepted first, White second, and the chain verifies.
C6_Witness ==
    /\ DistinctPlayers(chain)
    /\ Len(accepted) = 2
    /\ PublicKey(accepted[1]) = chain.challenge.black_public_key
    /\ PublicKey(accepted[2]) = chain.challenge.white_public_key
    /\ op.name = "accept"
    /\ result = "Ok"
    /\ Verify(chain)

\* C7 (Spec): verify is false whenever fewer than two accept slots are
\* filled, however many moves the chain holds.
C7_NoVerifyWithoutAccepts == ~BothAccepts(chain) => ~Verify(chain)

\* One accept and a stored move: verify is false.
C7_Witness ==
    /\ NumAccepts(chain) = 1
    /\ Len(chain.moves) >= 1
    /\ ~Verify(chain)

\* C8 as stated (SpecTamper): with both accept slots forced to the same
\* AcceptBlock verify is false, for every challenge.
C8_DuplicateNeverVerifies == tamper.kind = "duplicate" => ~Verify(chain)

\* C8 as amended (SpecTamper): with both accept slots forced to the same
\* AcceptBlock verify is false, for every challenge whose white and black
\* keys differ.
C8_DuplicateFailsForDistinctKeys ==
    (tamper.kind = "duplicate" /\ DistinctPlayers(chain)) => ~Verify(chain)

\* Black's AcceptBlock copied into the other slot of a two-player chain.
C8_Witness ==
    /\ tamper.kind = "duplicate"
    /\ DistinctPlayers(chain)
    /\ chain.accepts[1] = chain.accepts[2]
    /\ IsSome(chain.accepts[1])
    /\ CryptoVerify(chain.challenge.black_public_key,
                    ChallengeAsBytes(chain.challenge),
                    Unwrap(chain.accepts[1]).signature)
    /\ ~Verify(chain)

\* C9 (SpecTamper): on a chain that verifies, changing the signature of the
\* move at any index makes verify false, and restoring it makes verify
\* true again.
C9_MoveSignatureTamper ==
    /\ (tamper.kind = "move" /\ Verify(prev)) => ~Verify(chain)
    /\ (op.name = "restore_move" /\ result = "WasValid") => Verify(chain)

\* The second move's signature was changed on a verified chain (verify
\* turned false) and has been restored.
C9_Witness ==
    /\ op.name = "restore_move"
    /\ result = "WasValid"
    /\ tamper.index = 2
    /\ ~Verify(prev)
    /\ Verify(chain)

\* C10 (SpecTamper): on a chain that verifies, changing the signature in
\* either accept slot makes verify false, and restoring it makes verify
\* true again.
C10_AcceptSignatureTamper ==
    /\ (tamper.kind = "accept" /\ Verify(prev)) => ~Verify(chain)
    /\ (op.name = "restore_accept" /\ result = "WasValid") => Verify(chain)

\* The signature in slot 1 was changed on a verified chain (verify turned
\* false) and has been restored.
C10_Witness ==
    /\ op.name = "restore_accept"
    /\ result = "WasValid"
    /\ tamper.index = 2
    /\ ~Verify(prev)
    /\ Verify(chain)

\* The public key a genuine signature was made under.
SignerOf(sig) == sig[1].d[1]

\* The challenge key of the color on move after n stored moves, and of the
\* color that is not on move.
KeyOnMove(c, n) ==
    IF n % 2 = 0 THEN c.challenge.white_public_key ELSE c.challenge.black_public_key

KeyOffMove(c, n) ==
    IF n % 2 = 0 THEN c.challenge.black_public_key ELSE c.challenge.white_public_key

\* C11 (Spec): make_move_block signed by the key of the color that is not on
\* move (a key other than the one on move) fails with WrongSigner; signed
\* by the color on move with a move that is illegal in the projected
\* position it fails with IllegalMove; neither appends a block.  White is on
\* move when the number of stored moves is even, Black when it is odd.
C11_MoveRejections ==
    op.name = "make_move_block" =>
        LET n == Len(prev.moves)
            game == GetGame(prev)
        IN  /\ ~game.panicked
            /\ SideToMove(game.pos) = (IF n % 2 = 0 THEN "White" ELSE "Black")
            /\ (/\ PublicKey(op.key) = KeyOffMove(prev, n)
                /\ PublicKey(op.key) # KeyOnMove(prev, n))
                   => (result = ErrWrongSigner /\ chain = prev)
            /\ (/\ PublicKey(op.key) = KeyOnMove(prev, n)
                /\ op.action.kind = "MakeMove"
                /\ ~Legal(game.pos, op.action.mv))
                   => (result = ErrIllegalMove /\ chain = prev)

\* Black, on move after one stored move, offers an illegal move.
C11_Witness ==
    /\ op.name = "make_move_block"
    /\ Len(prev.moves) = 1
    /\ DistinctPlayers(prev)
    /\ PublicKey(op.key) = prev.challenge.black_public_key
    /\ op.action.kind = "MakeMove"
    /\ result = ErrIllegalMove
    /\ chain = prev

\* C13 (Spec): the MoveBlock at index i (from 0) is signed by the White
\* challenge key when i is even and by the Black one when i is odd, so with
\* two different keys no key signs two consecutive MoveBlocks.
C13_StrictAlternation ==
    /\ \A i \in 1..Len(chain.moves) :
          SignerOf(chain.moves[i].signature) =
              (IF (i - 1) % 2 = 0 THEN chain.challenge.white_public_key
               ELSE chain.challenge.black_public_key)
    /\ DistinctPlayers(chain) =>
          \A i \in 1..(Len(chain.moves) - 1) :
              SignerOf(chain.moves[i].signature) #
                  SignerOf(chain.moves[i + 1].signature)

C13_Witness ==
    /\ DistinctPlayers(chain)
    /\ Len(chain.moves) = 2
    /\ SignerOf(chain.moves[1].signature) = chain.challenge.white_public_key
    /\ SignerOf(chain.moves[2].signature) = chain.challenge.black_public_key

\* C14 (Spec): a successful accept or make_move_block leaves the challenge
\* and every filled accept slot as they were and keeps the old move list
\* as a prefix; accept fills one slot and leaves the moves, make_move_block
\* appends exactly one MoveBlock (the offered squares) and leaves the slots.
C14_AppendOnly ==
    (op.name \in {"accept", "make_move_block"} /\ result = "Ok") =>
        /\ chain.challenge = prev.challenge
        /\ \A s \in 1..2 :
              IsSome(prev.accepts[s]) => chain.accepts[s] = prev.accepts[s]
        /\ SubSeq(chain.moves, 1, Len(prev.moves)) = prev.moves
        /\ op.name = "accept" =>
              /\ chain.moves = prev.moves
              /\ NumAccepts(chain) = NumAccepts(prev) + 1
        /\ op.name = "make_move_block" =>
              /\ chain.accepts = prev.accepts
              /\ Len(chain.moves) = Len(prev.moves) + 1
              /\ chain.moves[Len(chain.moves)].start_square = op.action.mv.source
              /\ chain.moves[Len(chain.moves)].end_square = op.action.mv.dest

\* A second move appended to a chain with both accepts.
C14_Witness ==
    /\ op.name = "make_move_block"
    /\ result = "Ok"
    /\ BothAccepts(prev)
    /\ Len(prev.moves) = 1
    /\ Len(chain.moves) = 2
    /\ chain.moves[1] = prev.moves[1]

\* C15 (Spec): on a chain for which verify is true, get_game replays every
\* stored MoveBlock without reaching its panic.
C15_VerifiedChainReplays == Verify(chain) => ~GetGame(chain).panicked

C15_Witness ==
    /\ Verify(chain)
    /\ Len(chain.moves) = 2
    /\ ~GetGame(chain).panicked
    /\ GetGame(chain).pos.side = "White"

\* C12 (SpecDecode): in every chain state reachable through new,
\* accept, make_move_block and from_bytes, slot 1 is filled only if slot 0
\* is, and two filled slots never hold signatures made by the same key.
C12_SlotsOrderedAndDistinct ==
    /\ IsSome(chain.accepts[2]) => IsSome(chain.accepts[1])
    /\ BothAccepts(chain) =>
          SignerOf(Unwrap(chain.accepts[1]).signature) #
              SignerOf(Unwrap(chain.accepts[2]).signature)

\* What holds of the slots (SpecDecode): slot 1 is filled only if slot 0
\* is, and two filled slots hold signatures by different keys unless the
\* chain was decoded from bytes that are no encoding, whole or truncated, of
\* a chain built by new, accept and make_move_block.
SlotsOrderedDistinctUnlessForeign ==
    /\ IsSome(chain.accepts[2]) => IsSome(chain.accepts[1])
    /\ (BothAccepts(chain) /\ tamper.kind # "foreign") =>
          SignerOf(Unwrap(chain.accepts[1]).signature) #
              SignerOf(Unwrap(chain.accepts[2]).signature)

\* C16 (SpecDecode): decoding a ChallengeBlock or a GameChain from fewer
\* than 82 bytes returns the size error; neither aborts the process.
C16_ShortInputIsAnError ==
    (op.name \in {"challenge_from_bytes", "from_bytes"} /\ op.len < ChallengeLen)
        => (result = ErrChallengeShort /\ chain = prev)

\* C19 (SpecDecode): a failing accept or make_move_block leaves the
\* challenge, both accept slots and the move list as they were.
C19_FailedCallsChangeNothing ==
    (op.name \in {"accept", "make_move_block"} /\ result # "Ok")
        => /\ chain = prev
           /\ result \in {ErrKeyNotInChallenge, ErrDuplicateKey, ErrChainFull,
                          ErrWrongSigner, ErrIllegalMove, ErrUnsupportedAction}

\* The second accept by the key that holds slot 0 fails on a chain that
\* holds a move.
C19_Witness ==
    /\ op.name = "accept"
    /\ result = ErrDuplicateKey
    /\ NumAccepts(prev) = 1
    /\ prev.moves # <<>>
    /\ chain = prev

\* encode(challenge, both accepts, the first n moves), written out: the
\* 82 challenge bytes, the two 64-byte accept signatures in slot order,
\* then 66 bytes per move (start square, end square, signature).
RECURSIVE EncodeMoves(_, _)
EncodeMoves(ms, n) ==
    IF n = 0 THEN <<>>
    ELSE EncodeMoves(ms, n - 1)
            \o <<B(ms[n].start_square), B(ms[n].end_square)>>
            \o ms[n].signature

EncodeUpTo(c, n) ==
    ChallengeAsBytes(c.challenge)
        \o Unwrap(c.accepts[1]).signature
        \o Unwrap(c.accepts[2]).signature
        \o EncodeMoves(c.moves, n)

\* The three conditions of C17 on a chain; i is the move index from 0.
AllChecks(c) ==
    /\ IsSome(c.accepts[1])
    /\ IsSome(c.accepts[2])
    /\ Len(ChallengeAsBytes(c.challenge)) = ChallengeLen
    /\ LET cb == ChallengeAsBytes(c.challenge)
           white == c.challenge.white_public_key
           black == c.challenge.black_public_key
           slot0 == Unwrap(c.accepts[1]).signature
           slot1 == Unwrap(c.accepts[2]).signature
       IN  /\ \/ CryptoVerify(white, cb, slot0) /\ CryptoVerify(black, cb, slot1)
              \/ CryptoVerify(white, cb, slot1) /\ CryptoVerify(black, cb, slot0)
           /\ \A i \in 0..(Len(c.moves) - 1) :
                 CryptoVerify(IF i % 2 = 0 THEN white ELSE black,
                              EncodeUpTo(c, i)
                                  \o <<B(c.moves[i + 1].start_square),
                                       B(c.moves[i + 1].end_square)>>,
                              c.moves[i + 1].signature)

\* C17 (SpecTamper): verify() is true if and only if both accept slots are
\* filled, the two accept signatures verify over the 82-byte challenge
\* encoding under White and Black in either slot order, and every move i
\* verifies under White (i even) or Black (i odd) over the encoding of the
\* challenge, both accepts and the moves before i, followed by move i's two
\* coordinate bytes.
C17_VerifyIffAllChecks == Verify(chain) <=> AllChecks(chain)

\* A chain with two moves whose accepts verify, whose first move verifies
\* and whose second move's signature was changed: verify is false.
C17_Witness ==
    /\ tamper.kind = "move"
    /\ tamper.index = 2
    /\ Verify(prev)
    /\ Len(chain.moves) = 2
    /\ AcceptsVerify(chain)
    /\ MoveVerifiesIn(chain, 1)
    /\ ~Verify(chain)

\* C18 (SpecAlter): on a chain with both accepts and at least one move that
\* verifies, altering a challenge field, an accept signature, the order of
\* the accept blocks, or the squares or signature of a move makes the
\* signature of every move after the altered place fail, and with such a
\* move present verify() is false.
C18_TamperInvalidatesLater ==
    (/\ tamper.kind \in {"challenge", "accept", "swap", "square", "move"}
     /\ Verify(prev)
     /\ Len(prev.moves) >= 1)
        => LET first == IF tamper.kind \in {"square", "move"}
                        THEN tamper.index + 1 ELSE 1
           IN  /\ \A k \in first..Len(chain.moves) : ~MoveVerifiesIn(chain, k)
               /\ first <= Len(chain.moves) => ~Verify(chain)

\* The accept blocks of a verified chain with two moves were swapped: the
\* accepts still verify, neither move does, and verify() is false.
C18_Witness ==
    /\ tamper.kind = "swap"
    /\ Verify(prev)
    /\ Len(chain.moves) = 2
    /\ AcceptsVerify(chain)
    /\ ~MoveVerifiesIn(chain, 1)
    /\ ~MoveVerifiesIn(chain, 2)
    /\ ~Verify(chain)

\* The position after applying the given moves, in order, to a position.
RECURSIVE ApplyMoves(_, _)
ApplyMoves(pos, mvs) ==
    IF mvs = <<>> THEN pos
    ELSE ApplyMoves(MakeMove(pos, mvs[1]), Tail(mvs))

\* C20 (SpecPromotion): after any sequence of successful make_move_block
\* calls, get_game() returns the position obtained by applying exactly the
\* appended moves, in order, to the initial position, also when several
\* legal moves share the move's two squares.
C20_ProjectionAgrees ==
    /\ ~GetGame(chain).panicked
    /\ GetGame(chain).pos = ApplyMoves(InitialPosition, played)

====
